---- MODULE Spec2Model ----
(***************************************************************************)
(* A model of llama_index_supervisor.Supervisor: construction of the       *)
(* registry (tools, agents, hand-off tools) and the workflow loop          *)
(*   prepare_chat_history -> handle_llm_input -> handle_tool_calls -> ...  *)
(* together with the memory protocol around a sub-agent run.               *)
(*                                                                         *)
(* Names are sequences of tokens, so that "transfer_to_" + name and        *)
(* str.removeprefix can be computed: "transfer_to_a1" is                   *)
(* <<"transfer_to_", "a1">>.                                               *)
(*                                                                         *)
(* A ChatMemoryBuffer is modelled by the identity of the chat store it     *)
(* refers to; chat_store maps every store that exists to its messages.     *)
(***************************************************************************)
EXTENDS Integers, Sequences, FiniteSets, TLC

VARIABLES
    pc,                         \* position of the workflow
    error,                      \* the exception construction ended with, or "none"
    caller_tools,               \* the list object the caller passed as tools=
    output_mode,                \* self.output_mode
    add_handoff_back_messages,  \* self.add_handoff_back_messages
    tools,                      \* self.tools
    agents,                     \* self.agents
    agents_by_name,             \* self.agents_by_name
    agent_tools,                \* self.agent_tools
    tools_by_name,              \* self.tools_by_name
    chat_store,                 \* the chat stores: store id -> messages
    ctx_memory,                 \* ctx "memory": the store its buffer refers to
    new_ctx_memory,             \* new_ctx "memory" of the running sub-agent
    input,                      \* InputEvent.input in flight
    tool_calls,                 \* ToolCallEvent.tool_calls of the current turn
    tool_msgs,                  \* the local list tool_msgs of handle_tool_calls
    running_agent,              \* the agent of the last executed hand-off
    next_id,                    \* call ids the model has issued so far
    uuids,                      \* uuids drawn by create_handoff_back_messages
    agent_puts,                 \* messages the running sub-agent has put
    agent_runs,                 \* history: sub-agent runs started this turn
    mem_at_turn,                \* history: memory after the assistant message
    mem_at_agent_start,         \* history: memory when agent.run was called
    mem_at_agent_end,           \* history: sub-agent's memory when run returned
    result,                     \* StopEvent.result, "none" before it
    args,                       \* the arguments of the last Supervisor(...) call
    constructions,              \* Supervisor(...) calls made with the tools list
    system_prompt,              \* self.system_prompt
    ev_input,                   \* whether the StartEvent carried input
    llm_query,                  \* chat_history of the last astream_chat_with_tools
    queries,                    \* history: model queries of the run
    invoked,                    \* history: tool calls invoked this turn
    raised,                     \* history: ids of the calls whose tool raised
    passed_tools                \* history: the tools the caller put into the list

vars == <<pc, error, caller_tools, output_mode, add_handoff_back_messages,
          tools, agents, agents_by_name, agent_tools, tools_by_name,
          chat_store, ctx_memory, new_ctx_memory, input, tool_calls,
          tool_msgs, running_agent, next_id, uuids, agent_puts, agent_runs,
          mem_at_turn, mem_at_agent_start, mem_at_agent_end, result, args,
          constructions, system_prompt, ev_input, llm_query, queries, invoked,
          raised, passed_tools>>

config_vars == <<caller_tools, output_mode, add_handoff_back_messages, tools,
                 agents, agents_by_name, agent_tools, tools_by_name, error,
                 args, constructions, system_prompt, passed_tools>>

history_vars == <<agent_runs, mem_at_turn, mem_at_agent_start, mem_at_agent_end,
                  queries, invoked, raised>>

-----------------------------------------------------------------------------
(* Bounds *)

\* tool calls the model issues over one run (call ids 1..MaxCalls)
MaxCalls == 2

\* messages a sub-agent puts into its memory during one run
MaxAgentMsgs == 2

\* Supervisor(...) calls that reuse one tools list
MaxConstructions == 2

-----------------------------------------------------------------------------
(* Names *)

HandoffPrefix == "transfer_to_"

T1 == <<"t1">>
T2 == <<"t2">>

\* lower-casing of one token
Lower(tok) == IF tok = "A1" THEN "a1" ELSE tok

normalize_agent_name(name) == [i \in DOMAIN name |-> Lower(name[i])]

\* str.removeprefix
removeprefix(name, prefix) ==
    IF Len(name) > 0 /\ name[1] = prefix THEN Tail(name) ELSE name

NoAgent == [name |-> <<>>]

Agent(n) == [name |-> n]

Tool(n, f) == [name |-> n, fn |-> f, kind |-> "tool"]

create_handoff_tool(agent) ==
    [name |-> <<HandoffPrefix>> \o normalize_agent_name(agent.name),
     fn   |-> "handoff",
     kind |-> "handoff"]

TransferTo(n) == <<HandoffPrefix>> \o n

-----------------------------------------------------------------------------
(* Messages *)

NoId == 0

ChatMessage(role, content, id, name) ==
    [role |-> role, content |-> content, tool_call_id |-> id, name |-> name]

SupervisorName == <<"supervisor">>

\* the pair create_handoff_back_messages returns, under a fresh uuid
create_handoff_back_messages(agent_name, supervisor_name, uuid) ==
    << ChatMessage("tool",
                   [kind |-> "transferring_back", supervisor |-> supervisor_name],
                   uuid, <<"transfer_back_to_">> \o supervisor_name),
       ChatMessage("tool",
                   [kind |-> "transferred_back", supervisor |-> supervisor_name],
                   uuid, <<"transfer_back_to_">> \o supervisor_name) >>

Last(s) == s[Len(s)]

-----------------------------------------------------------------------------
(* Construction: Supervisor.__init__, _setup_agents, _setup_tools *)

OutputModes == {"full_history", "last_message"}

\* _setup_agents raises ValueError when a normalized name is met a second time
DuplicateAgentName(ags) ==
    \E i, j \in DOMAIN ags :
        i < j /\ normalize_agent_name(ags[i].name) = normalize_agent_name(ags[j].name)

\* self.agents_by_name after the loop of _setup_agents (a later entry would
\* overwrite an earlier one, were the duplicate not refused)
setup_agents(ags) ==
    [n \in {normalize_agent_name(ags[i].name) : i \in DOMAIN ags} |->
        LET k == CHOOSE i \in DOMAIN ags :
                    /\ normalize_agent_name(ags[i].name) = n
                    /\ \A j \in DOMAIN ags :
                          normalize_agent_name(ags[j].name) = n => j <= i
        IN  ags[k]]

\* self.agent_tools
setup_agent_tools(ags) == [i \in DOMAIN ags |-> create_handoff_tool(ags[i])]

\* self.tools after self.tools.extend(self.agent_tools)
setup_tools(tls, ags) == tls \o setup_agent_tools(ags)

\* a dict comprehension: the last entry of a name wins
dict_by_name(tls) ==
    [n \in {tls[i].name : i \in DOMAIN tls} |->
        LET k == CHOOSE i \in DOMAIN tls :
                    /\ tls[i].name = n
                    /\ \A j \in DOMAIN tls : tls[j].name = n => j <= i
        IN  tls[k]]

\* the kinds of value a caller passes as system_prompt: None, a str, or
\* anything else (a ChatMessage, a list)
SystemPrompts == {"None", "str", "ChatMessage"}

\* self.system_prompt for a system_prompt that is None or a str
setup_system_prompt(sp) ==
    IF sp = "str"
    THEN << ChatMessage("system", [kind |-> "system_prompt"], NoId, <<>>) >>
    ELSE <<>>

\* an __init__ that does not look at output_mode
init_error_any_mode(llm_fc, ags, tls, mode, sp) ==
    IF ~llm_fc THEN "AssertionError: function calling"
    ELSE IF Len(ags) + Len(tls) = 0 THEN "AssertionError: no agent or tool"
    ELSE IF sp \notin {"None", "str"} THEN "TypeError: isinstance"
    ELSE IF DuplicateAgentName(ags) THEN "ValueError: duplicate agent name"
    ELSE "none"

\* the exception __init__ ends with, "none" when it returns; a system_prompt
\* that is truthy and no str reaches isinstance(system_prompt, list[str]),
\* which raises TypeError
init_error(llm_fc, ags, tls, mode, sp) ==
    IF ~llm_fc THEN "AssertionError: function calling"
    ELSE IF mode \notin OutputModes THEN "AssertionError: output_mode"
    ELSE IF Len(ags) + Len(tls) = 0 THEN "AssertionError: no agent or tool"
    ELSE IF sp \notin {"None", "str"} THEN "TypeError: isinstance"
    ELSE IF DuplicateAgentName(ags) THEN "ValueError: duplicate agent name"
    ELSE "none"

\* the arguments of a Supervisor(...) call; tools is the content of the
\* caller's list when the call is made
Args(llm_fc, ags, tls, hb, mode, sp) ==
    [llm_fc |-> llm_fc, agents |-> ags, tools |-> tls,
     add_handoff_back_messages |-> hb, output_mode |-> mode, system_prompt |-> sp]

NoArgs == Args(FALSE, <<>>, <<>>, FALSE, "none", "None")

\* The registries and system prompts a caller may construct the Supervisor
\* with
Setups ==
    { [tools |-> <<Tool(T1, "f1")>>,
       agents |-> <<Agent(<<"a1">>), Agent(<<"a2">>)>>,
       system_prompt |-> "str"],
      [tools |-> <<Tool(T1, "f1"), Tool(T1, "f2")>>,
       agents |-> <<>>,
       system_prompt |-> "None"],
      [tools |-> <<Tool(TransferTo(<<"a1">>), "f1")>>,
       agents |-> <<Agent(<<"A1">>)>>,
       system_prompt |-> "str"],
      [tools |-> <<>>,
       agents |-> <<Agent(<<"a1">>), Agent(<<"A1">>)>>,
       system_prompt |-> "None"],
      [tools |-> <<Tool(T1, "f1")>>,
       agents |-> <<>>,
       system_prompt |-> "None"],
      [tools |-> <<Tool(T1, "f1")>>,
       agents |-> <<>>,
       system_prompt |-> "ChatMessage"],
      [tools |-> <<>>,
       agents |-> <<>>,
       system_prompt |-> "str"] }

Init ==
    /\ pc = "new"
    /\ error = "none"
    /\ caller_tools = <<>>
    /\ output_mode = "full_history"
    /\ add_handoff_back_messages = TRUE
    /\ tools = <<>>
    /\ agents = <<>>
    /\ agents_by_name = <<>>
    /\ agent_tools = <<>>
    /\ tools_by_name = <<>>
    /\ chat_store = <<>>
    /\ ctx_memory = 0
    /\ new_ctx_memory = 0
    /\ input = <<>>
    /\ tool_calls = <<>>
    /\ tool_msgs = <<>>
    /\ running_agent = NoAgent
    /\ next_id = 0
    /\ uuids = 0
    /\ agent_puts = 0
    /\ agent_runs = 0
    /\ mem_at_turn = <<>>
    /\ mem_at_agent_start = <<>>
    /\ mem_at_agent_end = <<>>
    /\ result = "none"
    /\ args = NoArgs
    /\ constructions = 0
    /\ system_prompt = <<>>
    /\ ev_input = FALSE
    /\ llm_query = <<>>
    /\ queries = 0
    /\ invoked = <<>>
    /\ raised = {}
    /\ passed_tools = <<>>

run_vars == <<chat_store, ctx_memory, new_ctx_memory, input, tool_calls,
              tool_msgs, running_agent, next_id, uuids, agent_puts, result,
              ev_input, llm_query>>

\* Supervisor(llm, agents, tools, system_prompt=sp,
\*            add_handoff_back_messages=hb, output_mode=mode)
Construct(llm_fc, ags, tls, hb, mode, sp) ==
    /\ pc \in {"new", "constructed"}
    /\ args' = Args(llm_fc, ags, tls, hb, mode, sp)
    /\ constructions' = constructions + 1
    /\ LET err == init_error(llm_fc, ags, tls, mode, sp)
       IN  IF err # "none"
           THEN /\ pc' = "failed"
                /\ error' = err
                /\ caller_tools' = tls
                /\ UNCHANGED <<output_mode, add_handoff_back_messages, tools,
                               agents, agents_by_name, agent_tools, tools_by_name,
                               system_prompt>>
           ELSE /\ pc' = "constructed"
                /\ error' = "none"
                /\ system_prompt' = setup_system_prompt(sp)
                /\ output_mode' = mode
                /\ add_handoff_back_messages' = hb
                /\ agents' = ags
                /\ agents_by_name' = setup_agents(ags)
                /\ agent_tools' = setup_agent_tools(ags)
                /\ tools' = setup_tools(tls, ags)
                /\ tools_by_name' = dict_by_name(setup_tools(tls, ags))
                \* tools or [] aliases a non-empty list of the caller
                /\ caller_tools' = IF tls = <<>> THEN tls ELSE setup_tools(tls, ags)
    /\ UNCHANGED run_vars
    /\ UNCHANGED history_vars

\* the first Supervisor(...) call: the caller's list holds the tools tls
FirstConstruct(llm_fc, ags, tls, hb, mode, sp) ==
    /\ pc = "new"
    /\ passed_tools' = tls
    /\ Construct(llm_fc, ags, tls, hb, mode, sp)

\* a further Supervisor(...) call of the same caller, for other agents, with
\* the list object of the call before
Reconstruct(ags, hb, mode) ==
    /\ pc = "constructed"
    /\ constructions < MaxConstructions
    /\ UNCHANGED passed_tools
    /\ Construct(TRUE, ags, caller_tools, hb, mode, args.system_prompt)

-----------------------------------------------------------------------------
(* Memory: ChatMemoryBuffer over a chat store *)

\* memory.put / memory.aput
put(store, mem, msg) == [store EXCEPT ![mem] = Append(@, msg)]

\* memory.get() and memory.get_all(), for a buffer within its token limit
get(store, mem) == store[mem]

\* chat_store.delete_message(key, idx=0)
delete_message(msgs) == IF Len(msgs) = 0 THEN msgs ELSE Tail(msgs)

\* memory.model_copy(): pydantic's copy is shallow (deep=False), the new
\* buffer refers to the chat store of the old one
model_copy(mem) == mem

\* _update_memory: the store afterwards and the list `messages` afterwards
update_memory(store, mem, messages) ==
    IF messages = <<>>
    THEN [chat_store |-> store, messages |-> messages]
    ELSE [chat_store |-> [store EXCEPT ![mem] = @ \o messages],
          messages   |-> <<>>]

\* the supervisor's memory: what ctx.get("memory") holds
SupMemory == IF ctx_memory = 0 THEN <<>> ELSE chat_store[ctx_memory]

-----------------------------------------------------------------------------
(* One turn of tool calls *)

\* names the model may put into a tool call, offered to it or not
CallNames == {T1, T2, TransferTo(<<"a1">>), TransferTo(<<"a2">>)}

Kwargs == { [task |-> "None", reason |-> "None"],
            [task |-> "k1", reason |-> "r1"] }

ToolSelection(name, id, kwargs) ==
    [tool_name |-> name, tool_id |-> id, tool_kwargs |-> kwargs]

\* the tool calls of one response: 1..n calls, ids continuing after `last`
CallSeqs(last, n) ==
    UNION { { [i \in 1..k |-> ToolSelection(c[i][1], last + i, c[i][2])] :
                c \in [1..k -> CallNames \X Kwargs] } : k \in 1..n }

IsHandoffCall(tc, ats) == \E i \in DOMAIN ats : tc.tool_name = ats[i].name

InSeq(x, s) == \E i \in DOMAIN s : s[i] = x

\* _split_tool_calls
split_tool_calls(tcs, ats) ==
    LET agent_handoffs == SelectSeq(tcs, LAMBDA tc : IsHandoffCall(tc, ats))
    IN  [agent_handoffs |-> agent_handoffs,
         regular_tools  |-> SelectSeq(tcs, LAMBDA tc : ~InSeq(tc, agent_handoffs))]

\* a lookup tools_by_name[tool_name] inside the try block: the KeyError of
\* an unregistered name is reported as an error of the tool call
regular_tool_msg_keyerror(tc, tbn, raises) ==
    IF tc.tool_name \notin DOMAIN tbn
    THEN ChatMessage("tool", [kind |-> "error_in_tool_call", fn |-> "KeyError"],
                     tc.tool_id, tc.tool_name)
    ELSE IF raises
    THEN ChatMessage("tool", [kind |-> "error_in_tool_call", fn |-> tbn[tc.tool_name].fn],
                     tc.tool_id, tc.tool_name)
    ELSE ChatMessage("tool", [kind |-> "tool_output", fn |-> tbn[tc.tool_name].fn],
                     tc.tool_id, tc.tool_name)

\* a result message built without additional_kwargs
regular_tool_msg_anonymous(tc, tbn, raises) ==
    IF tc.tool_name \notin DOMAIN tbn
    THEN ChatMessage("tool", [kind |-> "tool_does_not_exist", tool |-> tc.tool_name],
                     NoId, <<>>)
    ELSE IF raises
    THEN ChatMessage("tool", [kind |-> "error_in_tool_call", fn |-> tbn[tc.tool_name].fn],
                     NoId, <<>>)
    ELSE ChatMessage("tool", [kind |-> "tool_output", fn |-> tbn[tc.tool_name].fn],
                     NoId, <<>>)

\* the message _process_regular_tools appends for one call; raises tells
\* whether the tool, once called, raises
regular_tool_msg(tc, tbn, raises) ==
    IF tc.tool_name \notin DOMAIN tbn
    THEN ChatMessage("tool", [kind |-> "tool_does_not_exist", tool |-> tc.tool_name],
                     tc.tool_id, tc.tool_name)
    ELSE IF raises
    THEN ChatMessage("tool", [kind |-> "error_in_tool_call", fn |-> tbn[tc.tool_name].fn],
                     tc.tool_id, tc.tool_name)
    ELSE ChatMessage("tool", [kind |-> "tool_output", fn |-> tbn[tc.tool_name].fn],
                     tc.tool_id, tc.tool_name)

\* the calls of _process_regular_tools that reach tool(**tool_call.tool_kwargs)
invoked_tools(regular_tools, tbn) ==
    SelectSeq(regular_tools, LAMBDA tc : tc.tool_name \in DOMAIN tbn)

\* the ids of the calls of _process_regular_tools that end in `except`
raised_tools(regular_tools, tbn, raises) ==
    {regular_tools[i].tool_id : i \in {j \in DOMAIN regular_tools :
        regular_tools[j].tool_name \in DOMAIN tbn /\ raises[j]}}

\* a dispatcher that lets go of a call whose tool raised
process_regular_tools_drop(regular_tools, tbn, raises) ==
    SelectSeq([i \in DOMAIN regular_tools |->
                  regular_tool_msg(regular_tools[i], tbn, raises[i])],
              LAMBDA m : m.content.kind # "error_in_tool_call")

\* _process_regular_tools: what it appends to tool_msgs
process_regular_tools(regular_tools, tbn, raises) ==
    [i \in DOMAIN regular_tools |-> regular_tool_msg(regular_tools[i], tbn, raises[i])]

\* an answer to the first of several hand-offs only
multiple_handoff_msgs_first(agent_handoffs) ==
    << ChatMessage("tool",
                   [kind  |-> "multiple_handoffs",
                    names |-> [i \in DOMAIN agent_handoffs |->
                                  agent_handoffs[i].tool_name]],
                   agent_handoffs[1].tool_id, agent_handoffs[1].tool_name) >>

\* _process_agent_handoffs, more than one hand-off
multiple_handoff_msgs(agent_handoffs) ==
    LET handoff_names == [i \in DOMAIN agent_handoffs |-> agent_handoffs[i].tool_name]
    IN  [i \in DOMAIN agent_handoffs |->
            ChatMessage("tool", [kind |-> "multiple_handoffs", names |-> handoff_names],
                        agent_handoffs[i].tool_id, agent_handoffs[i].tool_name)]

\* a hand-off that reports the tool name for the agent and loses the task
process_agent_handoff_lossy(handoff, abn) ==
    LET handoff_agent == removeprefix(handoff.tool_name, HandoffPrefix)
    IN  [msg   |-> ChatMessage("tool",
                       [kind   |-> "transferred",
                        agent  |-> handoff.tool_name,
                        task   |-> "None",
                        reason |-> handoff.tool_kwargs.reason],
                       handoff.tool_id, handoff.tool_name),
         agent |-> IF handoff_agent \in DOMAIN abn THEN abn[handoff_agent]
                   ELSE NoAgent]

\* _process_agent_handoff up to the call of _run_agent: the message it appends
\* and the agent it is about to run (NoAgent when it returns early)
process_agent_handoff(handoff, abn) ==
    LET handoff_agent == removeprefix(handoff.tool_name, HandoffPrefix)
    IN  IF handoff_agent \notin DOMAIN abn
        THEN [msg   |-> ChatMessage("tool",
                            [kind |-> "agent_does_not_exist", tool |-> handoff.tool_name],
                            handoff.tool_id, handoff.tool_name),
              agent |-> NoAgent]
        ELSE [msg   |-> ChatMessage("tool",
                            [kind   |-> "transferred",
                             agent  |-> abn[handoff_agent].name,
                             task   |-> handoff.tool_kwargs.task,
                             reason |-> handoff.tool_kwargs.reason],
                            handoff.tool_id, handoff.tool_name),
              agent |-> abn[handoff_agent]]

\* _run_agent after agent.run returned: the merge-back
run_agent_merge(store, mem, memo, mode) ==
    IF mode = "full_history"
    THEN [chat_store |-> [store EXCEPT ![memo] = delete_message(@)],
          ctx_memory |-> memo]
    ELSE [chat_store |-> put(store, mem, Last(get(store, memo))),
          ctx_memory |-> mem]

-----------------------------------------------------------------------------
(* The workflow steps *)

\* prepare_chat_history, on the StartEvent of a fresh context
prepare_chat_history(has_input) ==
    /\ pc = "constructed"
    /\ LET mem   == Len(chat_store) + 1
           store == Append(chat_store, <<>>)
           after == IF has_input
                    THEN put(store, mem,
                             ChatMessage("user", [kind |-> "user"], NoId, <<>>))
                    ELSE store
       IN  /\ chat_store' = after
           /\ ctx_memory' = mem
           /\ input' = get(after, mem)
    /\ ev_input' = has_input
    /\ pc' = "llm"
    /\ UNCHANGED <<new_ctx_memory, tool_calls, tool_msgs, running_agent,
                   next_id, uuids, agent_puts, result, llm_query>>
    /\ UNCHANGED config_vars
    /\ UNCHANGED history_vars

\* a query that passes ev.input alone
llm_chat_history_bare(sys_prompt, chat_history) == chat_history

\* the chat_history _get_llm_response passes to astream_chat_with_tools
llm_chat_history(sys_prompt, chat_history) == sys_prompt \o chat_history

\* a step that returns no event for a response without tool calls
next_event_none(tcs) == IF tcs = <<>> THEN "no_event" ELSE "tools"

\* a step that ends the run whatever the response carries
next_event_stop(tcs) == "stopped"

\* the event handle_llm_input returns: "stopped" is the StopEvent, "tools"
\* the ToolCallEvent
next_event(tcs) == IF tcs = <<>> THEN "stopped" ELSE "tools"

\* handle_llm_input: the response carries the tool calls tcs (none: <<>>)
handle_llm_input(tcs) ==
    /\ pc = "llm"
    /\ llm_query' = llm_chat_history(system_prompt, input)
    /\ queries' = queries + 1
    /\ LET response == ChatMessage("assistant",
                                   [kind |-> "assistant", calls |-> Len(tcs)],
                                   NoId, <<>>)
           after    == put(chat_store, ctx_memory, response)
       IN  /\ chat_store' = after
           /\ mem_at_turn' = after[ctx_memory]
           /\ pc' = next_event(tcs)
           /\ result' = IF next_event(tcs) = "stopped" THEN response ELSE result
    /\ tool_calls' = tcs
    /\ next_id' = next_id + Len(tcs)
    /\ agent_runs' = 0
    /\ invoked' = <<>>
    /\ raised' = {}
    /\ UNCHANGED <<ctx_memory, new_ctx_memory, input, tool_msgs, running_agent,
                   uuids, agent_puts, mem_at_agent_start, mem_at_agent_end,
                   ev_input>>
    /\ UNCHANGED config_vars

\* the model stream raises: _get_llm_response does not return, nothing of
\* handle_llm_input after it is executed and the run ends with the exception
llm_stream_raises(store, mem) == store

LlmRaise ==
    /\ pc = "llm"
    /\ llm_query' = llm_chat_history(system_prompt, input)
    /\ queries' = queries + 1
    /\ chat_store' = llm_stream_raises(chat_store, ctx_memory)
    /\ pc' = "llm_raised"
    /\ UNCHANGED <<ctx_memory, new_ctx_memory, input, tool_calls, tool_msgs,
                   running_agent, next_id, uuids, agent_puts, result, ev_input>>
    /\ UNCHANGED <<agent_runs, mem_at_turn, mem_at_agent_start, mem_at_agent_end,
                   invoked, raised>>
    /\ UNCHANGED config_vars

\* handle_tool_calls, up to its return or up to the await of agent.run;
\* raises[i] tells whether the i-th regular tool raises when called
handle_tool_calls(raises) ==
    /\ pc = "tools"
    /\ LET sp       == split_tool_calls(tool_calls, agent_tools)
           handoffs == sp.agent_handoffs
           regular  == process_regular_tools(sp.regular_tools, tools_by_name, raises)
           single   == process_agent_handoff(handoffs[1], agents_by_name)
           msgs     == IF Len(handoffs) > 1
                       THEN regular \o multiple_handoff_msgs(handoffs)
                       ELSE IF Len(handoffs) = 1
                       THEN Append(regular, single.msg)
                       ELSE regular
           um       == update_memory(chat_store, ctx_memory, msgs)
       IN  /\ chat_store' = um.chat_store
           /\ tool_msgs' = um.messages
           /\ invoked' = invoked_tools(sp.regular_tools, tools_by_name)
           /\ raised' = raised_tools(sp.regular_tools, tools_by_name, raises)
           /\ IF Len(handoffs) = 1 /\ single.agent # NoAgent
              THEN \* _run_agent: new_ctx.set("memory", memory.model_copy())
                   /\ new_ctx_memory' = model_copy(ctx_memory)
                   /\ running_agent' = single.agent
                   /\ agent_runs' = agent_runs + 1
                   /\ mem_at_agent_start' = um.chat_store[ctx_memory]
                   /\ pc' = "agent"
                   /\ input' = input
              ELSE \* _get_input_event
                   /\ input' = get(um.chat_store, ctx_memory)
                   /\ pc' = "llm"
                   /\ UNCHANGED <<new_ctx_memory, running_agent, agent_runs,
                                  mem_at_agent_start>>
    /\ UNCHANGED <<ctx_memory, tool_calls, next_id, uuids, agent_puts, result,
                   mem_at_turn, mem_at_agent_end, ev_input, llm_query, queries>>
    /\ UNCHANGED config_vars

\* the sub-agent, while agent.run is awaited, puts a message into the memory
\* of its own context
AgentPut ==
    /\ pc = "agent"
    /\ agent_puts < MaxAgentMsgs
    /\ chat_store' = put(chat_store, new_ctx_memory,
                         ChatMessage("assistant",
                                     [kind |-> "agent", n |-> agent_puts + 1],
                                     NoId, running_agent.name))
    /\ agent_puts' = agent_puts + 1
    /\ UNCHANGED <<pc, ctx_memory, new_ctx_memory, input, tool_calls, tool_msgs,
                   running_agent, next_id, uuids, result, ev_input, llm_query>>
    /\ UNCHANGED config_vars
    /\ UNCHANGED history_vars

\* an end of _process_agent_handoff that does not look at the flag
add_handoff_back_always(store, mem, msgs, enabled, agent_name, uuid) ==
    update_memory(store, mem,
                  msgs \o create_handoff_back_messages(agent_name, SupervisorName, uuid))

\* the end of _process_agent_handoff, after _run_agent: the store and the
\* list tool_msgs afterwards
add_handoff_back(store, mem, msgs, enabled, agent_name, uuid) ==
    IF enabled
    THEN update_memory(store, mem,
                       msgs \o create_handoff_back_messages(agent_name,
                                                            SupervisorName, uuid))
    ELSE [chat_store |-> store, messages |-> msgs]

\* agent.run returns: the rest of _run_agent, of _process_agent_handoff and of
\* handle_tool_calls
AgentReturn ==
    /\ pc = "agent"
    /\ LET merged == run_agent_merge(chat_store, ctx_memory, new_ctx_memory,
                                     output_mode)
           um1    == add_handoff_back(merged.chat_store, merged.ctx_memory,
                                      tool_msgs, add_handoff_back_messages,
                                      running_agent.name, -(uuids + 1))
           um2    == update_memory(um1.chat_store, merged.ctx_memory, um1.messages)
       IN  /\ mem_at_agent_end' = get(chat_store, new_ctx_memory)
           /\ chat_store' = um2.chat_store
           /\ ctx_memory' = merged.ctx_memory
           /\ tool_msgs' = um2.messages
           /\ input' = get(um2.chat_store, merged.ctx_memory)
    /\ uuids' = IF add_handoff_back_messages THEN uuids + 1 ELSE uuids
    /\ new_ctx_memory' = 0
    /\ agent_puts' = 0
    /\ pc' = "llm"
    /\ UNCHANGED <<tool_calls, running_agent, next_id, result, agent_runs,
                   mem_at_turn, mem_at_agent_start, ev_input, llm_query,
                   queries, invoked, raised>>
    /\ UNCHANGED config_vars

\* a _run_agent that merges back although agent.run raised (try/finally)
agent_run_raises_merged(store, mem, memo, mode) ==
    IF mode = "full_history"
    THEN [chat_store |-> [store EXCEPT ![memo] = delete_message(@)],
          ctx_memory |-> memo]
    ELSE [chat_store |-> put(store, mem, Last(get(store, memo))),
          ctx_memory |-> mem]

\* agent.run raises: the exception leaves _run_agent, _process_agent_handoff
\* and handle_tool_calls at once; the store and ctx "memory" afterwards
agent_run_raises(store, mem, memo, mode) ==
    [chat_store |-> store, ctx_memory |-> mem]

AgentRaise ==
    /\ pc = "agent"
    /\ LET after == agent_run_raises(chat_store, ctx_memory, new_ctx_memory,
                                     output_mode)
       IN  /\ chat_store' = after.chat_store
           /\ ctx_memory' = after.ctx_memory
    /\ mem_at_agent_end' = get(chat_store, new_ctx_memory)
    /\ pc' = "agent_raised"
    /\ UNCHANGED <<new_ctx_memory, input, tool_calls, tool_msgs, running_agent,
                   next_id, uuids, agent_puts, result, ev_input, llm_query>>
    /\ UNCHANGED <<agent_runs, mem_at_turn, mem_at_agent_start, queries, invoked,
                   raised>>
    /\ UNCHANGED config_vars

Next ==
    \/ \E llm_fc \in BOOLEAN, s \in Setups, hb \in BOOLEAN,
          mode \in OutputModes \cup {"summary"} :
            FirstConstruct(llm_fc, s.agents, s.tools, hb, mode, s.system_prompt)
    \/ \E has_input \in BOOLEAN : prepare_chat_history(has_input)
    \/ handle_llm_input(<<>>)
    \/ \E tcs \in CallSeqs(next_id, MaxCalls - next_id) : handle_llm_input(tcs)
    \/ \E raises \in [1..Len(tool_calls) -> BOOLEAN] : handle_tool_calls(raises)
    \/ AgentPut
    \/ AgentReturn
    \/ LlmRaise
    \/ AgentRaise

Spec == Init /\ [][Next]_vars

\* the workflow runtime delivers every event a step returns to the step that
\* accepts it, and the awaited calls come back: a step that can be taken is
\* taken
FairSpec == Spec /\ WF_vars(Next)

\* the agents of a further Supervisor(...) call
AgentLists == {<<Agent(<<"a1">>)>>, <<Agent(<<"a2">>)>>, <<>>}

\* a caller that constructs Supervisors one after the other from one tools
\* list, without running them
ReuseNext ==
    \/ \E llm_fc \in BOOLEAN, s \in Setups, hb \in BOOLEAN,
          mode \in OutputModes \cup {"summary"} :
            FirstConstruct(llm_fc, s.agents, s.tools, hb, mode, s.system_prompt)
    \/ \E ags \in AgentLists, hb \in BOOLEAN, mode \in OutputModes :
            Reconstruct(ags, hb, mode)

ReuseSpec == Init /\ [][ReuseNext]_vars

-----------------------------------------------------------------------------
(* Vocabulary of the properties *)

IsPrefix(s, t) == Len(s) <= Len(t) /\ SubSeq(t, 1, Len(s)) = s

\* the messages of memory added since the assistant message of the turn
SinceTurn == SubSeq(SupMemory, Len(mem_at_turn) + 1, Len(SupMemory))

\* handle_tool_calls has returned for the turn whose requests are tool_calls
TurnDone == pc = "llm" /\ tool_calls # <<>>

\* the names of the hand-off tools of the registered agents
HandoffToolNames ==
    {TransferTo(normalize_agent_name(agents[i].name)) : i \in DOMAIN agents}

\* the hand-off requests of the turn, in request order
HandoffRequests == SelectSeq(tool_calls, LAMBDA tc : tc.tool_name \in HandoffToolNames)

\* tool-role messages of a sequence that carry a call id
ResultsFor(msgs, id) ==
    {k \in DOMAIN msgs : msgs[k].role = "tool" /\ msgs[k].tool_call_id = id}

\* the hand-off back messages of the last completed sub-agent run, if enabled
BackMessages(agent_name) ==
    IF add_handoff_back_messages
    THEN create_handoff_back_messages(agent_name, SupervisorName, -uuids)
    ELSE <<>>

\* a sub-agent run of this turn has returned and handle_tool_calls with it
HandoffDone == TurnDone /\ agent_runs > 0

-----------------------------------------------------------------------------
(* C1: once handle_tool_calls has finished, the supervisor's memory holds,
   for every tool-call request of the turn, exactly one tool-role message
   that carries the request's call id. *)
C1_ExactlyOneResultPerCall ==
    TurnDone =>
        \A i \in DOMAIN tool_calls :
            Cardinality(ResultsFor(SupMemory, tool_calls[i].tool_id)) = 1

(* C2: a turn without hand-off requests leaves memory equal to the memory
   after its assistant message followed by one tool-role message per request,
   the i-th carrying the call id and tool name of the i-th request; a turn
   with no request at all adds nothing. *)
C2_RegularResultsInOrder ==
    /\ (TurnDone /\ HandoffRequests = <<>>) =>
          /\ IsPrefix(mem_at_turn, SupMemory)
          /\ Last(mem_at_turn).role = "assistant"
          /\ Len(SinceTurn) = Len(tool_calls)
          /\ \A i \in DOMAIN tool_calls :
                /\ SinceTurn[i].role = "tool"
                /\ SinceTurn[i].tool_call_id = tool_calls[i].tool_id
                /\ SinceTurn[i].name = tool_calls[i].tool_name
    /\ pc = "stopped" => (tool_calls = <<>> /\ SupMemory = mem_at_turn)

\* a finished turn of two regular requests: an unregistered tool, then a
\* registered tool that raised
C2_Witness ==
    /\ TurnDone
    /\ HandoffRequests = <<>>
    /\ Len(tool_calls) = 2
    /\ Len(SinceTurn) = 2
    /\ SinceTurn[1].content.kind = "tool_does_not_exist"
    /\ SinceTurn[2].content.kind = "error_in_tool_call"

(* C3: in a turn with exactly one hand-off request, to a registered agent,
   exactly one sub-agent run is started, and when it starts the memory of the
   supervisor already holds the message "Successfully transferred to <agent>
   for task: <task>, reason: <reason>" under the request's call id. *)
C3_OneRunAfterSuccessMessage ==
    LET h      == HandoffRequests[1]
        target == removeprefix(h.tool_name, HandoffPrefix)
        known  == Len(HandoffRequests) = 1 /\ target \in DOMAIN agents_by_name
        sent   == ChatMessage("tool",
                              [kind   |-> "transferred",
                               agent  |-> agents_by_name[target].name,
                               task   |-> h.tool_kwargs.task,
                               reason |-> h.tool_kwargs.reason],
                              h.tool_id, h.tool_name)
    IN  /\ (TurnDone /\ known) => agent_runs = 1
        /\ pc = "agent" =>
              /\ known
              /\ agent_runs = 1
              /\ running_agent = agents_by_name[target]
              /\ InSeq(sent, mem_at_agent_start)
              /\ Cardinality(ResultsFor(mem_at_agent_start, h.tool_id)) = 1

\* the run of agent "A1" has started on a request that names a task
C3_Witness ==
    /\ pc = "agent"
    /\ agent_puts = 0
    /\ running_agent = Agent(<<"A1">>)
    /\ Len(tool_calls) = 2
    /\ Last(SupMemory).content = [kind |-> "transferred", agent |-> <<"A1">>,
                                  task |-> "k1", reason |-> "r1"]

(* C4: in a turn with two or more hand-off requests no sub-agent run is
   started and every one of these requests gets one message of its own, under
   its call id, saying that several hand-off tools were selected; no turn
   starts more than one sub-agent run. *)
C4_MultipleHandoffsRefused ==
    /\ agent_runs <= 1
    /\ (pc = "agent" \/ agent_runs > 0) => Len(HandoffRequests) = 1
    /\ (TurnDone /\ Len(HandoffRequests) >= 2) =>
          /\ agent_runs = 0
          /\ \A i \in DOMAIN HandoffRequests :
                LET ks == ResultsFor(SinceTurn, HandoffRequests[i].tool_id)
                IN  /\ Cardinality(ks) = 1
                    /\ \A k \in ks :
                          /\ SinceTurn[k].name = HandoffRequests[i].tool_name
                          /\ SinceTurn[k].content =
                                [kind  |-> "multiple_handoffs",
                                 names |-> [j \in DOMAIN HandoffRequests |->
                                               HandoffRequests[j].tool_name]]

\* a finished turn whose two requests hand off to two different agents
C4_Witness ==
    /\ TurnDone
    /\ Len(HandoffRequests) = 2
    /\ HandoffRequests[1].tool_name # HandoffRequests[2].tool_name
    /\ Len(SinceTurn) = 2

\* requests for transfer_to_<x> where no agent <x> is registered
UnknownHandoffRequests ==
    SelectSeq(tool_calls,
              LAMBDA tc : /\ tc.tool_name[1] = HandoffPrefix
                          /\ Tail(tc.tool_name) \notin DOMAIN agents_by_name)

(* C5: in a turn whose one hand-off request names an agent that is not
   registered, no sub-agent run is started and the request gets exactly one
   message under its call id, the error "Agent <name> does not exist". *)
C5_UnknownAgentError ==
    (TurnDone /\ Len(UnknownHandoffRequests) = 1 /\ HandoffRequests = <<>>) =>
        LET h  == UnknownHandoffRequests[1]
            ks == ResultsFor(SinceTurn, h.tool_id)
        IN  /\ agent_runs = 0
            /\ Cardinality(ks) = 1
            /\ \A k \in ks : SinceTurn[k].content.kind = "agent_does_not_exist"

(* C6: a Supervisor that was constructed has no two registered entries (tools
   and hand-off tools) with the same name and no two agents with the same
   normalized name: a duplicate makes the construction fail. *)
C6_NoDuplicateNames ==
    pc \notin {"new", "failed"} =>
        /\ \A i, j \in DOMAIN tools : tools[i].name = tools[j].name => i = j
        /\ ~DuplicateAgentName(agents)

(* C7: under output_mode = last_message, after an executed hand-off the
   memory of the supervisor is its memory at the start of the sub-agent run,
   then the last message of the sub-agent's resulting memory, then the
   hand-off back messages when they are enabled. *)
C7_LastMessageOnly ==
    (HandoffDone /\ output_mode = "last_message") =>
        SupMemory = mem_at_agent_start
                        \o << Last(mem_at_agent_end) >>
                        \o BackMessages(running_agent.name)

(* C8: under output_mode = full_history, after an executed hand-off every
   message the supervisor held at the start of the sub-agent run is still in
   its memory, in order, followed by the messages the sub-agent added and by
   the hand-off back messages when they are enabled. *)
C8_FullHistoryKeepsAll ==
    (HandoffDone /\ output_mode = "full_history") =>
        /\ IsPrefix(mem_at_agent_start, mem_at_agent_end)
        /\ SupMemory = mem_at_agent_end \o BackMessages(running_agent.name)

(* C9: while a sub-agent runs, whatever it does to the memory of its own
   context, the memory of the supervisor stays what it was when the run
   started. *)
C9_SubAgentMemoryIsolated ==
    pc = "agent" => SupMemory = mem_at_agent_start

(* C10: every step of a run leaves the messages the supervisor's memory held
   before it as a prefix of the messages it holds after it. *)
C10_MemoryAppendOnly == [][IsPrefix(SupMemory, SupMemory')]_vars

(* C11: the run is at its StopEvent exactly when the last response carried no
   tool call: then no tool was called and no sub-agent ran in that turn,
   memory ends with the assistant message of that response and nothing after
   it, and the result is that message; a response with tool calls leads to
   handle_tool_calls, never to the StopEvent. *)
C11_StopExactlyOnNoToolCalls ==
    /\ pc = "stopped" =>
          /\ tool_calls = <<>>
          /\ invoked = <<>> /\ agent_runs = 0 /\ tool_msgs = <<>>
          /\ SupMemory = mem_at_turn
          /\ Last(SupMemory) = result
          /\ result.role = "assistant" /\ result.content.calls = 0
    /\ pc = "tools" => tool_calls # <<>>
    /\ (pc \in {"agent", "agent_raised"} \/ TurnDone) => tool_calls # <<>>

\* the run stopped in its second turn, after a turn of tool calls
C11_Witness ==
    pc = "stopped" /\ queries = 2 /\ Len(SupMemory) > 2

\* the requests of the turn that fail in handle_tool_calls: an unregistered
\* name (a hand-off to an unknown agent included), a tool that raised, and
\* each of several hand-off requests
FailedCalls ==
    {i \in DOMAIN tool_calls :
        \/ tool_calls[i].tool_name \notin DOMAIN tools_by_name
        \/ tool_calls[i].tool_id \in raised
        \/ Len(HandoffRequests) > 1 /\ tool_calls[i].tool_name \in HandoffToolNames}

FailureKinds ==
    {"tool_does_not_exist", "error_in_tool_call", "multiple_handoffs",
     "agent_does_not_exist"}

(* C12: a step of handle_tool_calls over requests that fail (unregistered
   name, raising tool, unknown hand-off target, several hand-offs) does not
   end the run: it leaves every failed request with a tool-role error message
   under its call id in memory, and unless the turn also starts a sub-agent
   the next event is an InputEvent carrying the memory. *)
C12_RecoverableErrorsBecomeMessages ==
    [][pc = "tools" =>
        /\ pc' \in {"llm", "agent"}
        /\ \A i \in FailedCalls' :
              \E k \in ResultsFor(SupMemory', tool_calls[i].tool_id) :
                  /\ SupMemory'[k].content.kind \in FailureKinds
                  /\ k > Len(mem_at_turn)
        /\ (FailedCalls' # {} /\ agent_runs' = agent_runs) =>
              pc' = "llm" /\ input' = SupMemory']_vars

\* a turn with an unregistered request and a raising tool has been answered
C12_Witness ==
    /\ TurnDone /\ agent_runs = 0 /\ input = SupMemory
    /\ raised # {}
    /\ \E i \in DOMAIN tool_calls : tool_calls[i].tool_name \notin DOMAIN tools_by_name
    /\ Cardinality(FailedCalls) = 2

\* the arguments of the last Supervisor(...) call fail one of the assertions
InvalidConfiguration ==
    \/ ~args.llm_fc
    \/ args.output_mode \notin OutputModes
    \/ Len(args.tools) + Len(args.agents) = 0

AssertionErrors ==
    {"AssertionError: function calling", "AssertionError: output_mode",
     "AssertionError: no agent or tool"}

(* C13: a Supervisor(...) call with a model that is not function calling, an
   output_mode other than full_history and last_message, or neither tools
   nor agents ends in an AssertionError before any step of a run; a
   Supervisor that exists has a function-calling model, a valid output_mode
   and at least one tool or agent. *)
C13_InvalidConfigurationsRejected ==
    /\ (constructions > 0 /\ InvalidConfiguration) =>
          /\ pc = "failed" /\ error \in AssertionErrors
          /\ queries = 0 /\ ctx_memory = 0 /\ chat_store = <<>>
    /\ pc \notin {"new", "failed"} =>
          /\ args.llm_fc
          /\ output_mode \in OutputModes
          /\ Len(tools) > 0 /\ Len(args.tools) + Len(agents) > 0

\* a call with a function-calling model and a valid mode, but nothing to offer
C13_Witness ==
    /\ pc = "failed" /\ error = "AssertionError: no agent or tool"
    /\ args.llm_fc /\ args.output_mode \in OutputModes
    /\ args.tools = <<>> /\ args.agents = <<>>

\* handle_tool_calls has dispatched the requests of the turn
Dispatched == TurnDone \/ pc \in {"agent", "agent_raised"}

\* the requests of the turn whose name is no key of tools_by_name
UnregisteredCalls ==
    {i \in DOMAIN tool_calls : tool_calls[i].tool_name \notin DOMAIN tools_by_name}

(* C14: a request whose name is neither a registered tool nor a hand-off tool
   calls no tool and gets exactly one message under its call id, with the
   content "Tool <name> does not exist"; the requests after it are still
   dispatched: each has its result, and every registered regular tool of the
   turn has been called. *)
C14_UnregisteredToolMessage ==
    Dispatched =>
        \A i \in UnregisteredCalls :
            LET tc == tool_calls[i]
                ks == ResultsFor(SupMemory, tc.tool_id)
            IN  /\ Cardinality(ks) = 1
                /\ \A k \in ks :
                      /\ SupMemory[k].content =
                            [kind |-> "tool_does_not_exist", tool |-> tc.tool_name]
                      /\ SupMemory[k].name = tc.tool_name
                /\ ~InSeq(tc, invoked)
                /\ \A j \in DOMAIN tool_calls :
                      /\ j > i => ResultsFor(SupMemory, tool_calls[j].tool_id) # {}
                      /\ (/\ tool_calls[j].tool_name \in DOMAIN tools_by_name
                          /\ ~IsHandoffCall(tool_calls[j], agent_tools))
                            => InSeq(tool_calls[j], invoked)

\* an unregistered request followed by a request for a registered tool
C14_Witness ==
    /\ TurnDone /\ Len(tool_calls) = 2
    /\ UnregisteredCalls = {1}
    /\ tool_calls[1].tool_name = T2
    /\ invoked = <<tool_calls[2]>>
    /\ SupMemory[Len(SupMemory)].content.kind = "tool_output"

\* the requests of the turn that are no hand-off requests, in request order
RegularRequests ==
    SelectSeq(tool_calls, LAMBDA tc : tc.tool_name \notin HandoffToolNames)

\* a turn of regular requests and one hand-off whose sub-agent was started
MixedTurn ==
    /\ Dispatched /\ agent_runs = 1
    /\ Len(HandoffRequests) = 1 /\ RegularRequests # <<>>

\* what handle_tool_calls had added to memory when agent.run was called
AtAgentStart ==
    SubSeq(mem_at_agent_start, Len(mem_at_turn) + 1, Len(mem_at_agent_start))

Occurrences(msgs, m) == Cardinality({k \in DOMAIN msgs : msgs[k] = m})

\* every registered regular tool has been called when the sub-agent starts;
\* memory is then the memory after the assistant message, the regular results
\* in request order and the success message, and tool_msgs is empty
MixedTurnAtAgentStart ==
    MixedTurn =>
        /\ IsPrefix(mem_at_turn, mem_at_agent_start)
        /\ Len(AtAgentStart) = Len(RegularRequests) + 1
        /\ \A i \in DOMAIN RegularRequests :
              /\ AtAgentStart[i].role = "tool"
              /\ AtAgentStart[i].tool_call_id = RegularRequests[i].tool_id
              /\ AtAgentStart[i].name = RegularRequests[i].tool_name
        /\ Last(AtAgentStart).content.kind = "transferred"
        /\ Last(AtAgentStart).tool_call_id = HandoffRequests[1].tool_id
        /\ \A i \in DOMAIN RegularRequests :
              RegularRequests[i].tool_name \in DOMAIN tools_by_name
                  => InSeq(RegularRequests[i], invoked)
        /\ pc = "agent" => tool_msgs = <<>>

\* once the turn is over, each message merged before the sub-agent started
\* is in memory once
MixedTurnMergedOnce ==
    (MixedTurn /\ TurnDone) =>
        \A i \in DOMAIN AtAgentStart :
            Occurrences(SupMemory, AtAgentStart[i]) = 1

(* C15: in a turn of regular requests and one hand-off to a registered agent,
   every registered regular tool has been called when the sub-agent starts,
   memory is then the memory after the assistant message followed by the
   regular results in request order and the success message, the list
   tool_msgs is empty, and once the turn is over each of these messages is in
   memory once, not twice. *)
C15_MixedTurnMergedOnce ==
    MixedTurnAtAgentStart /\ MixedTurnMergedOnce

\* the hand-off back messages in a memory
BackCount(msgs) ==
    Cardinality({k \in DOMAIN msgs :
                    msgs[k].content.kind \in {"transferring_back", "transferred_back"}})

\* the last n messages of a sequence
LastN(msgs, n) == SubSeq(msgs, Len(msgs) - n + 1, Len(msgs))

(* C16: the step in which a sub-agent run returns appends, when
   add_handoff_back_messages is set, the pair of hand-off back messages of
   that agent behind the merged-back memory, and the InputEvent of the next
   model query carries a memory that ends with this pair; no other step adds
   a hand-off back message to memory: not a returning run without the flag,
   not a turn with no, several or an unresolved hand-off, not a run that
   raises. *)
C16_HandoffBackIffFlagAndRun ==
    [][IF pc = "agent" /\ pc' = "llm" /\ add_handoff_back_messages
       THEN /\ Len(SupMemory') >= 2
            /\ LastN(SupMemory', 2) =
                  create_handoff_back_messages(running_agent.name, SupervisorName,
                                               -uuids')
            /\ uuids' = uuids + 1
            /\ input' = SupMemory'
       ELSE BackCount(SupMemory') <= BackCount(SupMemory)]_vars

\* a run returned with the flag set and the next query is about to be made
C16_Witness ==
    /\ pc = "llm" /\ HandoffDone /\ add_handoff_back_messages
    /\ agent_puts = 0 /\ Len(mem_at_agent_end) > Len(mem_at_agent_start)
    /\ LastN(SupMemory, 2) = BackMessages(running_agent.name)
    /\ input = SupMemory

\* the run has ended with the exception of a collaborator
Raised == pc \in {"agent_raised", "llm_raised"}

(* C17: when agent.run raises, the step ends with the exception: memory
   keeps what it held when the run was started plus what the sub-agent put
   itself, without the merge-back (no copied last message, no deleted
   message) and without hand-off back messages, the hand-off request has its
   success message and no error message, and tool_msgs, the InputEvent and the
   result stay as they were. When the model stream raises, memory stays the
   memory the query was made with: no assistant message is appended and no
   tool call is taken from a response. After either exception the run takes
   no further step, so no model query is made and no tool is dispatched. *)
C17_CollaboratorFailureIsFatal ==
    [][/\ (pc = "agent" /\ pc' = "agent_raised") =>
             /\ ctx_memory' = ctx_memory
             /\ SupMemory' = SupMemory
             /\ IsPrefix(mem_at_agent_start, SupMemory')
             /\ Len(SupMemory') = Len(mem_at_agent_start) + agent_puts
             /\ BackCount(SupMemory') = BackCount(mem_at_agent_start)
             /\ \A k \in ResultsFor(SupMemory', HandoffRequests[1].tool_id) :
                   SupMemory'[k].content.kind = "transferred"
             /\ tool_msgs' = <<>> /\ input' = input /\ queries' = queries
             /\ result' = result
       /\ (pc = "llm" /\ pc' = "llm_raised") =>
             /\ SupMemory' = SupMemory /\ SupMemory' = input
             /\ tool_calls' = tool_calls /\ next_id' = next_id
             /\ invoked' = invoked /\ agent_runs' = agent_runs
             /\ result' = result
       /\ ~Raised]_vars

\* a sub-agent raised after it had put two messages
C17_Witness ==
    /\ pc = "agent_raised" /\ agent_puts = 2
    /\ Len(SupMemory) = Len(mem_at_agent_start) + 2
    /\ Last(SupMemory).content.kind = "agent"

UserCount(msgs) == Cardinality({k \in DOMAIN msgs : msgs[k].role = "user"})

(* C18: every model query is made with self.system_prompt followed by the
   whole memory of the supervisor; after a tool dispatch that memory holds a
   result for every request of the turn and, after a sub-agent run, the last
   message of the sub-agent; no message of role system is ever in memory; the
   number of user messages in memory grows only in prepare_chat_history, only
   when the StartEvent carried input, and then to one. *)
C18_QueryIsPromptPlusMemory ==
    [][/\ (pc = "llm" /\ pc' # "llm") =>
             /\ input = SupMemory
             /\ llm_query' = system_prompt \o SupMemory
             /\ queries' = queries + 1
             /\ TurnDone =>
                   \A i \in DOMAIN tool_calls :
                       ResultsFor(input, tool_calls[i].tool_id) # {}
             /\ HandoffDone =>
                   \E k \in DOMAIN input : input[k] = Last(mem_at_agent_end)
       /\ \A k \in DOMAIN SupMemory' : SupMemory'[k].role # "system"
       /\ UserCount(SupMemory') > UserCount(SupMemory) =>
             /\ pc = "constructed" /\ ev_input'
             /\ UserCount(SupMemory') = 1
       /\ (pc = "constructed" /\ ~ev_input') => UserCount(SupMemory') = 0]_vars

\* the second query of a run with a system prompt and a user message, made
\* after a sub-agent run
C18_Witness ==
    /\ queries = 2 /\ pc = "stopped" /\ system_prompt # <<>> /\ ev_input
    /\ agent_runs = 0 /\ mem_at_agent_end # <<>>
    /\ llm_query \o <<result>> = system_prompt \o SupMemory
    /\ UserCount(llm_query) = 1

(* C19: the loop counts no iterations and ends on the model's word only:
   when every enabled step is eventually taken, a run that is at a model
   query comes to the StopEvent, unless a collaborator raises; the model
   returns a response without tool calls at the latest when the call ids of
   the bound are used up, and until then the run goes on, query after
   query. *)
C19_StopsWhenModelStopsCalling ==
    (pc = "llm") ~> (pc = "stopped" \/ Raised)

\* a run that stopped only at query MaxCalls + 1, after MaxCalls turns of
\* tool calls
C19_Witness ==
    /\ pc = "stopped" /\ queries = MaxCalls + 1 /\ next_id = MaxCalls

(* C20: after a Supervisor(...) call that succeeded, the caller's tools list
   holds what it held before the call; whatever number of Supervisors were
   constructed from this list, the tools of the Supervisor are the tools the
   caller had put into the list followed by one hand-off tool per agent of
   this Supervisor, and each hand-off tool among them is one that
   _split_tool_calls of this Supervisor takes for a hand-off. *)
C20_CallerToolsUnchanged ==
    pc = "constructed" =>
        /\ caller_tools = args.tools
        /\ caller_tools = passed_tools
        /\ tools = passed_tools \o setup_agent_tools(agents)
        /\ \A i \in DOMAIN tools :
              tools[i].kind = "handoff" =>
                  IsHandoffCall(ToolSelection(tools[i].name, 1,
                                              [task |-> "None", reason |-> "None"]),
                                agent_tools)

\* the part of C20 that holds for the first Supervisor made from a list
FirstSupervisorTools ==
    (pc = "constructed" /\ constructions = 1) =>
        /\ tools = passed_tools \o setup_agent_tools(agents)
        /\ \A i \in DOMAIN tools :
              tools[i].kind = "handoff" =>
                  \E j \in DOMAIN agent_tools : agent_tools[j].name = tools[i].name

\* a second Supervisor offers a hand-off tool of the first as a regular tool
StaleHandoffTool ==
    /\ pc = "constructed" /\ constructions = 2
    /\ \E i \in DOMAIN tools :
          /\ tools[i].kind = "handoff"
          /\ \A j \in DOMAIN agent_tools : agent_tools[j].name # tools[i].name

====
